---- MODULE Spec2Model ----
(***************************************************************************)
(* Model of scripts/readme.py, the README generator of EmbedKit.            *)
(*                                                                         *)
(* One run of main(): backup_existing_readme, get_codebase_summary (git    *)
(* ls-files, a thread pool of read_file_content workers, sort, assemble),  *)
(* the prompt f-string, call_geminiai and the final write of README.md.    *)
(* Runs follow one another on the same working directory, so README.md and *)
(* README.md.bak persist from run to run.                                  *)
(*                                                                         *)
(* Text is a sequence of tokens.  A file on disk is a sequence of byte     *)
(* tokens; CR and LF are the two line-ending bytes and BAD is a byte that  *)
(* is not valid UTF-8.  Python's text-mode open() decodes, and translates  *)
(* line endings, so reading is modelled by Decode and writing by Encode.   *)
(***************************************************************************)
EXTENDS Integers, Sequences, FiniteSets, TLC

\* ---------------------------------------------------------------- bounds
MaxFiles == 2     \* at most this many tracked files are listed by git
MaxRuns  == 2     \* at most this many consecutive runs of main()

\* ---------------------------------------------------------------- tokens
CR  == "CR"
LF  == "LF"
BAD == "BAD"

SYSTEM_PROMPT == "SYSTEM_PROMPT"
AI_MODEL      == "gemini-2.0-flash-thinking-exp-01-21"

\* A file of the working directory: present or not, and its bytes.
Absent     == [exists |-> FALSE, data |-> <<>>]
File(data) == [exists |-> TRUE, data |-> data]

\* Contents README.md may hold before the first run: LF line endings, CRLF
\* line endings, a byte that is not UTF-8.
ReadmeContents ==
  { <<"#", LF>>, <<"#", CR, LF, "x">>, <<"#", BAD>> }

\* Contents README.md.bak may hold before the first run.
BackupContents == { <<"old", LF>> }

\* Paths git may list, and the code points of their characters.
Paths == {"a.txt", "b.bin", "B.md"}

PathKey(p) ==
  CASE p = "a.txt" -> <<97, 46, 116, 120, 116>>
    [] p = "b.bin" -> <<98, 46, 98, 105, 110>>
    [] p = "B.md"  -> <<66, 46, 109, 100>>

\* What a tracked file is on disk: bytes, or unreadable with an OS error.
Readable(data) == [err |-> "", data |-> data]
Unreadable(e)  == [err |-> e, data |-> <<>>]
FileStates ==
  { Readable(<<"hello">>), Readable(<<BAD>>), Unreadable("ENOENT") }

\* Values of os.environ.get("GEMINI_API_KEY"): None, "" or a key.
NoKey    == [isNone |-> TRUE, text |-> <<>>]
Str(t)   == [isNone |-> FALSE, text |-> t]
ApiKeys  == { NoKey, Str(<<>>), Str(<<"key">>) }

\* What genai does: the Client constructor raises, generate_content raises,
\* or response.text is None, "" or a text.
GenOutcomes == {"client_raises", "raises", "none", "empty", "text"}
GeneratedText == <<"# New", LF>>

\* ----------------------------------------------------------------- state
VARIABLES
  pc,               \* position of main(): see Next
  run,              \* number of the current run
  readme,           \* README.md
  bak,              \* README.md.bak
  readme0,          \* README.md as it was when the current run started
  bak0,             \* README.md.bak as it was when the current run started
  backupResult,     \* "none" | "true" | "false": backup_existing_readme()
  bakWrites,        \* times README.md.bak was opened for writing in this run
  lastBackedUp,     \* README.md at the start of the last run whose backup copied it
  gitResult,        \* "none" | "ok" | "CalledProcessError" | "FileNotFoundError"
  files,            \* the paths git ls-files printed, in its order
  done,             \* indices of files whose worker has returned
  disk,             \* disk[i]: what the worker found at files[i]
  results,          \* results[i]: the pair the worker returned for files[i]
  codebase_context, \* return value of get_codebase_summary()
  full_prompt,      \* the prompt handed to call_geminiai
  apiKey,           \* the value call_geminiai read from the environment
  clientConstructed,\* genai.Client(...) was called in this run
  netCalls,         \* calls of client.models.generate_content in this run
  sentPrompt,       \* the contents argument of that call
  genOutcome,       \* "none-yet" or the outcome drawn from GenOutcomes
  updated_readme,   \* return value of call_geminiai
  readmeWrites      \* times README.md was opened for writing in this run

vars ==
  << pc, run, readme, bak, readme0, bak0, backupResult, bakWrites,
     lastBackedUp, gitResult, files, done, disk, results, codebase_context,
     full_prompt, apiKey, clientConstructed, netCalls, sentPrompt,
     genOutcome, updated_readme, readmeWrites >>

diskVars == << readme, bak >>
runVars  == << run, readme0, bak0 >>
bakVars  == << backupResult, bakWrites, lastBackedUp >>
sumVars  == << gitResult, files, done, disk, results, codebase_context >>
genVars  == << apiKey, clientConstructed, netCalls, sentPrompt, genOutcome,
               updated_readme >>

\* ------------------------------------------------------ text-mode file I/O
Range(s) == { s[i] : i \in 1..Len(s) }

\* Universal newlines on read: CR LF and a lone CR both become LF.
RECURSIVE TranslateNewlines(_)
TranslateNewlines(b) ==
  IF b = <<>> THEN <<>>
  ELSE IF b[1] = CR
       THEN IF Len(b) >= 2 /\ b[2] = LF
            THEN <<LF>> \o TranslateNewlines(SubSeq(b, 3, Len(b)))
            ELSE <<LF>> \o TranslateNewlines(Tail(b))
       ELSE <<b[1]>> \o TranslateNewlines(Tail(b))

\* f.read() of open(path, "r", encoding="utf-8"): UnicodeDecodeError on a
\* byte that is not UTF-8, the text with translated line endings otherwise.
Decode(b) ==
  IF BAD \in Range(b)
  THEN [ok |-> FALSE, text |-> <<>>]
  ELSE [ok |-> TRUE, text |-> TranslateNewlines(b)]

\* os.linesep of the platform the script's shebang targets.
linesep == <<LF>>

\* f.write(text) of open(path, "w", encoding="utf-8"): LF becomes os.linesep.
RECURSIVE Encode(_)
Encode(t) ==
  IF t = <<>> THEN <<>>
  ELSE (IF t[1] = LF THEN linesep ELSE <<t[1]>>) \o Encode(Tail(t))

\* A failed write leaves at most this many tokens of its text on disk.
MaxFlushed == 1

Take(s, k) == SubSeq(s, 1, IF k < Len(s) THEN k ELSE Len(s))


\* ------------------------------------------------- backup_existing_readme
\* Faults the copy can meet: opening README.md fails, opening README.md.bak
\* fails, src.read() fails with an OS error, dst.write() fails.
BackupFaults == {"none", "open_src", "open_dst", "read", "write"}

\* Returns [ok, bak, opened]: the return value, README.md.bak afterwards and
\* whether README.md.bak was opened with mode "w" (which truncates it).
\* flushed is how much of a failed dst.write() reached the disk.
backup_existing_readme(rd, bk, fault, flushed) ==
  IF ~rd.exists
  THEN [ok |-> TRUE, bak |-> bk, opened |-> FALSE]
  ELSE IF fault \in {"open_src", "open_dst"}
  THEN [ok |-> FALSE, bak |-> bk, opened |-> FALSE]
  ELSE LET text == Decode(rd.data) IN
       IF fault = "read" \/ ~text.ok
       THEN [ok |-> FALSE, bak |-> File(<<>>), opened |-> TRUE]
       ELSE IF fault = "write"
       THEN [ok |-> FALSE, opened |-> TRUE,
             bak |-> File(Take(Encode(text.text), flushed))]
       ELSE [ok |-> TRUE, bak |-> File(Encode(text.text)), opened |-> TRUE]

\* Variant of AfterBackup that goes on whatever the backup returned.
AfterBackupUnchecked(ok) == "summary"

\* main(): "if not backup_existing_readme(): return".
AfterBackup(ok) == IF ok THEN "summary" ELSE "aborted"

Backup ==
  /\ pc = "backup"
  /\ \E fault \in BackupFaults, flushed \in 0..MaxFlushed :
       LET r == backup_existing_readme(readme, bak, fault, flushed) IN
       /\ bak' = r.bak
       /\ backupResult' = (IF r.ok THEN "true" ELSE "false")
       /\ bakWrites' = bakWrites + (IF r.opened THEN 1 ELSE 0)
       /\ lastBackedUp' = (IF r.ok /\ readme.exists THEN readme ELSE lastBackedUp)
       /\ pc' = AfterBackup(r.ok)
  /\ UNCHANGED << readme, runVars, sumVars, full_prompt, genVars, readmeWrites >>

\* ------------------------------------------------------ read_file_content
\* Variant of read_file_content without the "except UnicodeDecodeError" clause
\* ahead of a handler that re-raises decode errors.
read_file_content_unhandled(file_path, st) ==
  IF st.err # ""
  THEN [raised |-> FALSE,
        pair |-> <<file_path, <<"[Error reading file: ", st.err, "]">>>>]
  ELSE LET text == Decode(st.data) IN
       IF text.ok
       THEN [raised |-> FALSE, pair |-> <<file_path, text.text>>]
       ELSE [raised |-> TRUE, pair |-> <<file_path, <<>>>>]

\* Returns [raised, pair]: whether an exception leaves the function, and the
\* (path, content) tuple it returns otherwise.
read_file_content(file_path, st) ==
  IF st.err # ""
  THEN [raised |-> FALSE,
        pair |-> <<file_path, <<"[Error reading file: ", st.err, "]">>>>]
  ELSE LET text == Decode(st.data) IN
       IF text.ok
       THEN [raised |-> FALSE, pair |-> <<file_path, text.text>>]
       ELSE [raised |-> FALSE, pair |-> <<file_path, <<"[Binary file]">>>>]

\* --------------------------------------------------- get_codebase_summary
\* Python compares str by code point, left to right; a proper prefix is less.
RECURSIVE LexLess(_, _)
LexLess(s, t) ==
  IF t = <<>> THEN FALSE
  ELSE IF s = <<>> THEN TRUE
  ELSE IF s[1] # t[1] THEN s[1] < t[1]
  ELSE LexLess(Tail(s), Tail(t))

\* Insert pair x after every element whose key is not greater (stable).
RECURSIVE InsertByPath(_, _)
InsertByPath(x, sorted) ==
  IF sorted = <<>> THEN <<x>>
  ELSE IF LexLess(PathKey(x[1]), PathKey(sorted[1][1]))
       THEN <<x>> \o sorted
       ELSE <<sorted[1]>> \o InsertByPath(x, Tail(sorted))

\* Variant of SortByPath that leaves the results in the order git listed them.
SortByPathOmitted(rs) == rs

\* results.sort(key=lambda x: x[0])
RECURSIVE SortByPath(_)
SortByPath(rs) ==
  IF rs = <<>> THEN <<>>
  ELSE InsertByPath(rs[Len(rs)], SortByPath(SubSeq(rs, 1, Len(rs) - 1)))

\* Variant of Section that ends a section with a single newline.
SectionNoBlankLine(pair) == <<"--- ", pair[1], " ---", LF>> \o pair[2] \o <<LF>>

\* f"--- {file_path} ---\n{content}\n\n"
Section(pair) == <<"--- ", pair[1], " ---", LF>> \o pair[2] \o <<LF, LF>>

\* The loop "for file_path, content in results: summary += ...".
RECURSIVE BuildSummary(_)
BuildSummary(rs) ==
  IF rs = <<>> THEN <<>>
  ELSE BuildSummary(SubSeq(rs, 1, Len(rs) - 1)) \o Section(rs[Len(rs)])

\* Sequences without repetition of at most n elements of S.
Listings(S, n) ==
  { l \in UNION { [1..k -> S] : k \in 0..n } :
      \A i, j \in 1..Len(l) : i # j => l[i] # l[j] }

NoPair == <<"", <<>>>>
NoState == Unreadable("")

\* subprocess.check_output(["git", "ls-files"]) succeeds: the pool starts.
GitLsFiles ==
  /\ pc = "summary"
  /\ \E l \in Listings(Paths, MaxFiles) :
       /\ files' = l
       /\ results' = [i \in 1..Len(l) |-> NoPair]
       /\ disk' = [i \in 1..Len(l) |-> NoState]
  /\ gitResult' = "ok"
  /\ done' = {}
  /\ pc' = "reading"
  /\ UNCHANGED << diskVars, runVars, bakVars, codebase_context, full_prompt,
                  genVars, readmeWrites >>

\* git exits non-zero: CalledProcessError is caught, a message is returned.
GitFails ==
  /\ pc = "summary"
  /\ gitResult' = "CalledProcessError"
  /\ codebase_context' = <<"Error: Failed to list git files">>
  /\ pc' = "prompt"
  /\ UNCHANGED << diskVars, runVars, bakVars, files, done, disk, results,
                  full_prompt, genVars, readmeWrites >>

\* git cannot be started: FileNotFoundError is not caught and leaves main().
GitMissing ==
  /\ pc = "summary"
  /\ gitResult' = "FileNotFoundError"
  /\ pc' = "crashed"
  /\ UNCHANGED << diskVars, runVars, bakVars, files, done, disk, results,
                  codebase_context, full_prompt, genVars, readmeWrites >>

\* One worker of the pool returns; executor.map stores by input position.
ReadFile(i) ==
  /\ pc = "reading"
  /\ i \in (1..Len(files)) \ done
  /\ \E st \in FileStates :
       LET r == read_file_content(files[i], st) IN
       /\ disk' = [disk EXCEPT ![i] = st]
       /\ IF r.raised
          THEN /\ pc' = "crashed"
               /\ UNCHANGED << results, done >>
          ELSE /\ results' = [results EXCEPT ![i] = r.pair]
               /\ done' = done \cup {i}
               /\ pc' = pc
  /\ UNCHANGED << diskVars, runVars, bakVars, gitResult, files,
                  codebase_context, full_prompt, genVars, readmeWrites >>

\* list(executor.map(...)) is complete: sort, build the summary, return it.
Assemble ==
  /\ pc = "reading"
  /\ done = 1..Len(files)
  /\ codebase_context' = BuildSummary(SortByPath(results))
  /\ pc' = "prompt"
  /\ UNCHANGED << diskVars, runVars, bakVars, gitResult, files, done, disk,
                  results, full_prompt, genVars, readmeWrites >>

\* full_prompt = f"{SYSTEM_PROMPT}\n\nCodebase files:\n{codebase_context}"
BuildPrompt ==
  /\ pc = "prompt"
  /\ full_prompt' = <<SYSTEM_PROMPT, LF, LF, "Codebase files:", LF>>
                      \o codebase_context
  /\ pc' = "generate"
  /\ UNCHANGED << diskVars, runVars, bakVars, sumVars, genVars, readmeWrites >>


\* ---------------------------------------------------------- call_geminiai
None == [isNone |-> TRUE, text |-> <<>>]

\* Variant of KeyMissing that tests "api_key is None".
KeyMissingNoneOnly(api_key) == api_key.isNone

\* "if not api_key": None and "" are both falsy.
KeyMissing(api_key) == api_key.isNone \/ api_key.text = <<>>

\* Returns [ret, constructed, calls]: the return value, whether genai.Client
\* was called and how many times generate_content was invoked.
call_geminiai(api_key, outcome) ==
  IF KeyMissing(api_key)
  THEN [ret |-> None, constructed |-> FALSE, calls |-> 0]
  ELSE IF outcome = "client_raises"
  THEN [ret |-> None, constructed |-> TRUE, calls |-> 0]
  ELSE [constructed |-> TRUE, calls |-> 1,
        ret |-> CASE outcome = "raises" -> None
                  [] outcome = "none"   -> None
                  [] outcome = "empty"  -> Str(<<>>)
                  [] outcome = "text"   -> Str(GeneratedText)]

CallGemini ==
  /\ pc = "generate"
  /\ \E k \in ApiKeys, outcome \in GenOutcomes :
       LET r == call_geminiai(k, outcome) IN
       /\ apiKey' = k
       /\ clientConstructed' = r.constructed
       /\ netCalls' = netCalls + r.calls
       /\ sentPrompt' = (IF r.calls > 0 THEN full_prompt ELSE sentPrompt)
       /\ genOutcome' = (IF r.calls > 0 THEN outcome
                         ELSE IF r.constructed THEN "client_raises"
                         ELSE "not-called")
       /\ updated_readme' = r.ret
  /\ pc' = "write"
  /\ UNCHANGED << diskVars, runVars, bakVars, sumVars, full_prompt,
                  readmeWrites >>

\* ------------------------------------------------------- main: the write
\* Variant of ShouldWrite that tests "updated_readme is not None".
ShouldWriteNotNone(updated) == ~updated.isNone

\* "if updated_readme:": None and "" are both falsy.
ShouldWrite(updated) == ~updated.isNone /\ updated.text # <<>>

WriteFaults == {"none", "open", "write"}

\* with open("README.md", "w") as f: f.write(updated_readme)
WriteReadme ==
  /\ pc = "write"
  /\ IF ShouldWrite(updated_readme)
     THEN \E fault \in WriteFaults, flushed \in 0..MaxFlushed :
            CASE fault = "open" ->
                   UNCHANGED << readme, readmeWrites >>
              [] fault = "write" ->
                   /\ readme' = File(Take(Encode(updated_readme.text), flushed))
                   /\ readmeWrites' = readmeWrites + 1
              [] fault = "none" ->
                   /\ readme' = File(Encode(updated_readme.text))
                   /\ readmeWrites' = readmeWrites + 1
     ELSE UNCHANGED << readme, readmeWrites >>
  /\ pc' = "done"
  /\ UNCHANGED << bak, runVars, bakVars, sumVars, full_prompt, genVars >>

\* ------------------------------------------------------------- the runs
Ended == pc \in {"done", "aborted", "crashed"}

\* The script is started again in the same working directory.
NewRun ==
  /\ Ended
  /\ run < MaxRuns
  /\ run' = run + 1
  /\ pc' = "backup"
  /\ readme0' = readme
  /\ bak0' = bak
  /\ backupResult' = "none"
  /\ bakWrites' = 0
  /\ gitResult' = "none"
  /\ files' = <<>>
  /\ done' = {}
  /\ disk' = <<>>
  /\ results' = <<>>
  /\ codebase_context' = <<>>
  /\ full_prompt' = <<>>
  /\ apiKey' = NoKey
  /\ clientConstructed' = FALSE
  /\ netCalls' = 0
  /\ sentPrompt' = <<>>
  /\ genOutcome' = "not-called"
  /\ updated_readme' = None
  /\ readmeWrites' = 0
  /\ UNCHANGED << diskVars, lastBackedUp >>

Init ==
  /\ pc = "backup"
  /\ run = 1
  /\ readme \in {Absent} \cup { File(c) : c \in ReadmeContents }
  /\ bak \in {Absent} \cup { File(c) : c \in BackupContents }
  /\ readme0 = readme
  /\ bak0 = bak
  /\ backupResult = "none"
  /\ bakWrites = 0
  /\ lastBackedUp = Absent
  /\ gitResult = "none"
  /\ files = <<>>
  /\ done = {}
  /\ disk = <<>>
  /\ results = <<>>
  /\ codebase_context = <<>>
  /\ full_prompt = <<>>
  /\ apiKey = NoKey
  /\ clientConstructed = FALSE
  /\ netCalls = 0
  /\ sentPrompt = <<>>
  /\ genOutcome = "not-called"
  /\ updated_readme = None
  /\ readmeWrites = 0

Next ==
  \/ Backup
  \/ GitLsFiles
  \/ GitFails
  \/ GitMissing
  \/ \E i \in 1..MaxFiles : ReadFile(i)
  \/ Assemble
  \/ BuildPrompt
  \/ CallGemini
  \/ WriteReadme
  \/ NewRun

Spec == Init /\ [][Next]_vars


\* ================================================================ claims
Called == pc \in {"write", "done"}
\* The prompt of a run whose enumeration succeeded has just been built (it
\* is a local of main and no later step assigns it).
Prompted == pc = "generate" /\ gitResult = "ok"
\* call_geminiai has just returned from a run whose enumeration succeeded.
Sent == pc = "write" /\ gitResult = "ok" /\ netCalls > 0

\* s sorts before t: they first differ at a smaller code point of s, or s is
\* a proper prefix of t.
Before(s, t) ==
  \/ \E k \in 1..Len(s) :
       /\ k <= Len(t)
       /\ \A j \in 1..(k - 1) : s[j] = t[j]
       /\ s[k] < t[k]
  \/ /\ Len(s) < Len(t)
     /\ \A j \in 1..Len(s) : s[j] = t[j]

\* The (path, content) pairs of the run, as a set.
PairSet == { results[i] : i \in 1..Len(files) }

\* The pairs of a set, least path first.
RECURSIVE InPathOrder(_)
InPathOrder(S) ==
  IF S = {} THEN <<>>
  ELSE LET least == CHOOSE x \in S :
                      \A y \in S \ {x} : Before(PathKey(x[1]), PathKey(y[1]))
       IN <<least>> \o InPathOrder(S \ {least})

RECURSIVE Sections(_)
Sections(rs) ==
  IF rs = <<>> THEN <<>> ELSE Section(rs[1]) \o Sections(Tail(rs))

\* Positions of the delimiter lines of a prompt.
Delimiters(p) == { i \in 1..Len(p) : p[i] = "--- " }

\* C1: if git ls-files cannot be invoked or exits non-zero, the run aborts
\* before any network call: generate_content is never reached and README.md
\* is not written in that run.
C1_GitFailureAbortsBeforeNetwork ==
  gitResult \in {"CalledProcessError", "FileNotFoundError"}
    => netCalls = 0 /\ readmeWrites = 0

\* C2: when the remote call raises or returns None or an empty text,
\* README.md holds what it held before the run and README.md.bak was written
\* at most once in the run.
C2_FailedGenerationKeepsReadme ==
  genOutcome \in {"raises", "none", "empty"}
    => /\ readme = readme0
       /\ readmeWrites = 0
       /\ bakWrites <= 1

C2_Witness ==
  /\ pc = "done"
  /\ genOutcome \in {"raises", "none", "empty"}
  /\ readme0.exists
  /\ bakWrites = 1

\* C3: when GEMINI_API_KEY is absent or empty, the client is never
\* constructed, generate_content is never invoked and README.md holds what
\* it held before the run.
C3_MissingKeyNoNetwork ==
  (Called /\ (apiKey.isNone \/ apiKey.text = <<>>))
    => /\ ~clientConstructed
       /\ netCalls = 0
       /\ readme = readme0

C3_Witness ==
  /\ pc = "done"
  /\ ~apiKey.isNone
  /\ apiKey.text = <<>>
  /\ readme0.exists

\* C4: when README.md exists at the start and the backup returns True,
\* README.md.bak holds, from the backup step to the end of the run, exactly
\* what README.md held before the run.
C4_BackupEqualsReadmeBefore ==
  (readme0.exists /\ backupResult = "true") => bak = readme0

\* C5: when the backup returns failure the run aborts at once: no file
\* enumeration, no file read, no remote call and no write of README.md.
C5_BackupFailureAborts ==
  backupResult = "false"
    => /\ pc = "aborted"
       /\ gitResult = "none"
       /\ done = {}
       /\ ~clientConstructed
       /\ netCalls = 0
       /\ readmeWrites = 0

C5_Witness ==
  /\ backupResult = "false"
  /\ pc = "aborted"
  /\ bakWrites = 1

\* C6: when the backup returns False, README.md and a README.md.bak that
\* existed before the run hold exactly what they held before the run.
C6_FailedBackupOverwritesNothing ==
  backupResult = "false"
    => /\ readme = readme0
       /\ (bak0.exists => bak = bak0)

\* C7: the prompt is a function of the set of (path, content) pairs alone:
\* whatever order git lists the paths in and the workers return in, the
\* sections stand in lexicographic order of path.
C7_PromptDeterministic ==
  Prompted
    => /\ full_prompt = <<SYSTEM_PROMPT, LF, LF, "Codebase files:", LF>>
                          \o Sections(InPathOrder(PairSet))
       /\ \A i, j \in Delimiters(full_prompt) :
            i < j => Before(PathKey(full_prompt[i + 1]),
                            PathKey(full_prompt[j + 1]))

C7_Witness ==
  /\ Prompted
  /\ Len(files) >= 2
  /\ Before(PathKey(files[2]), PathKey(files[1]))

\* C8: a read failure never aborts the run: every worker returns its path
\* with the file's text, "[Binary file]" on a decode failure or a placeholder
\* holding the error message on another failure; every listed path has
\* exactly one section in the prompt and the run reaches the generation step.
C8_ReadFailuresAreTolerated ==
  /\ \A i \in done :
       /\ results[i][1] = files[i]
       /\ results[i][2] =
            (IF disk[i].err # ""
             THEN <<"[Error reading file: ", disk[i].err, "]">>
             ELSE IF BAD \in Range(disk[i].data)
             THEN <<"[Binary file]">>
             ELSE Decode(disk[i].data).text)
  /\ gitResult = "ok" => pc # "crashed"
  /\ Prompted =>
       /\ Cardinality(Delimiters(full_prompt)) = Len(files)
       /\ \A k \in 1..Len(files) :
            \E i \in Delimiters(full_prompt) : full_prompt[i + 1] = files[k]

C8_Witness ==
  /\ pc = "generate"
  /\ gitResult = "ok"
  /\ \E i, j \in done :
       /\ disk[i] = Readable(<<BAD>>)
       /\ disk[j] = Unreadable("ENOENT")

\* The text the format of section 4.4 gives for an ordered list of pairs.
RECURSIVE Formatted(_)
Formatted(rs) ==
  IF rs = <<>> THEN <<>>
  ELSE Formatted(SubSeq(rs, 1, Len(rs) - 1))
         \o <<"--- ", rs[Len(rs)][1], " ---", LF>>
         \o rs[Len(rs)][2]
         \o <<LF, LF>>

\* C9: the prompt sent is the instruction text, a separator, then for each
\* pair in order the line "--- <path> ---", the content and a blank line,
\* nothing else; for a.txt ("hello") and b.bin (not text) the a.txt section
\* with hello precedes the b.bin section with the placeholder.
C9_PromptFormat ==
  Sent
    => /\ sentPrompt = <<SYSTEM_PROMPT, LF, LF, "Codebase files:", LF>>
                         \o Formatted(InPathOrder(PairSet))
       /\ ( /\ { files[i] : i \in 1..Len(files) } = {"a.txt", "b.bin"}
            /\ \A i \in 1..Len(files) :
                 disk[i] = (IF files[i] = "a.txt" THEN Readable(<<"hello">>)
                            ELSE Readable(<<BAD>>)) )
          => sentPrompt =
               << SYSTEM_PROMPT, LF, LF, "Codebase files:", LF,
                  "--- ", "a.txt", " ---", LF, "hello", LF, LF,
                  "--- ", "b.bin", " ---", LF, "[Binary file]", LF, LF >>

C9_Witness ==
  /\ Sent
  /\ files = <<"b.bin", "a.txt">>
  /\ disk = << Readable(<<BAD>>), Readable(<<"hello">>) >>

\* C10: after a run in which README.md existed, the backup succeeded and
\* README.md was not rewritten, README.md.bak and README.md are identical;
\* and README.md.bak only ever holds what README.md held at the start of the
\* most recent run whose backup step copied it.
C10_BackupMirrorsLastRun ==
  /\ (pc = "done" /\ readme0.exists /\ backupResult = "true"
        /\ readmeWrites = 0)
       => bak = readme
  /\ lastBackedUp.exists => bak = lastBackedUp

====
